---- MODULE Spec2Model ----
(***************************************************************************)
(* medlab-sim: the two virtual-lab simulations as one state machine.       *)
(*                                                                         *)
(*   app = "smear"   the blood-smear preparation App (src/unnamed/part_000)*)
(*   app = "safety"  the 3D safety and handling App   (src/src/App.js)     *)
(*                                                                         *)
(* One App is mounted per session; Init chooses which.  A step of the      *)
(* model is one event handler or one timer callback run to completion,     *)
(* followed by the React re-render and the effects that re-render runs.    *)
(* State updates of one handler are batched into one re-render.            *)
(***************************************************************************)
EXTENDS Integers, Sequences, FiniteSets, TLC

\* Bound of the model: pending setTimeout callbacks at any one time.
MaxPending == 2

VARIABLES
    app,                 \* which App is mounted
    currentStep,         \* useState(0) in both Apps
    timers,              \* pending setTimeout callbacks, oldest first
    \* ---- blood-smear App
    score, feedbackMessage, isCorrectAction, activeTool,
    bloodDropVisible, slideHasBlood, smearQuality, showMicroscopeView,
    selectedOption, localIsCorrect,      \* MCQChallenge local state
    \* ---- 3D safety App
    simState, cylinderPos, feedback, showModal,
    \* ---- observation of the run (no handler reads it)
    satisfied            \* the active step's requirement was met since it became active

smearVars == <<score, feedbackMessage, isCorrectAction, activeTool,
               bloodDropVisible, slideHasBlood, smearQuality,
               showMicroscopeView, selectedOption, localIsCorrect>>
safetyVars == <<simState, cylinderPos, feedback, showModal>>
vars == <<app, currentStep, timers, smearVars, safetyVars, satisfied>>

NULL == "null"
UNDEFINED == "undefined"

-----------------------------------------------------------------------------
(* Timers.  delay is the setTimeout delay in ms; a callback scheduled     *)
(* earlier with a delay that is not larger runs first.                     *)

AdvanceDelay == 1500
ClearDelay == 3000
DwellDelay == 2000
QuizDelay == 2000
ProgressDelay == 850

Timer(kind, delay) ==
    [kind |-> kind, delay |-> delay, isAnswerCorrect |-> FALSE, step |-> 0,
     stale |-> FALSE]

AdvanceTimer == Timer("advance", AdvanceDelay)
ClearTimer == Timer("clear", ClearDelay)
DwellTimer == Timer("dwell", DwellDelay)
QuizAdvanceTimer == Timer("advance", QuizDelay)
QuizTimer(isAnswerCorrect) ==
    [Timer("quiz", QuizDelay) EXCEPT !.isAnswerCorrect = isAnswerCorrect]
ProgressTimer(step) ==
    [Timer("progress", ProgressDelay) EXCEPT !.step = step]

Remove(q, i) == SubSeq(q, 1, i - 1) \o SubSeq(q, i + 1, Len(q))

CanFire(i) ==
    /\ i \in 1..Len(timers)
    /\ \A j \in 1..(i - 1) : timers[j].delay > timers[i].delay

-----------------------------------------------------------------------------
(* Blood-smear App: the step catalog.                                      *)

\* A catalog entry whose nextStep names the entry itself.
StepDef_SelfLoop(id, action, tool, target, nextStep) ==
    [id |-> id, action |-> action, tool |-> tool, target |-> target,
     nextStep |-> id]

StepDef(id, action, tool, target, nextStep) ==
    [id |-> id, action |-> action, tool |-> tool, target |-> target,
     nextStep |-> nextStep]

labProcedureSteps == <<
    StepDef("intro", NULL, UNDEFINED, NULL, "gather_equipment"),
    StepDef("gather_equipment", "pick_up_tool", UNDEFINED, "alcohol_swab", "clean_finger"),
    StepDef("clean_finger", "use_tool_on_target", "alcohol_swab", "finger", "prick_finger"),
    StepDef("prick_finger", "pick_up_tool", UNDEFINED, "lancet", "apply_lancet"),
    StepDef("apply_lancet", "use_tool_on_target", "lancet", "finger", "wipe_first_drop"),
    StepDef("wipe_first_drop", "pick_up_tool", UNDEFINED, "alcohol_swab", "wipe_blood"),
    StepDef("wipe_blood", "use_tool_on_target", "alcohol_swab", "blood_drop", "wait_for_second_drop"),
    StepDef("wait_for_second_drop", "auto_advance_blood_drop", UNDEFINED, NULL, "collect_second_drop"),
    StepDef("collect_second_drop", "pick_up_tool", UNDEFINED, "clean_slide", "collect_blood_on_slide"),
    StepDef("collect_blood_on_slide", "use_tool_on_target", "clean_slide", "blood_drop", "prepare_smear"),
    StepDef("prepare_smear", "pick_up_tool", UNDEFINED, "spreader_slide", "perform_smear"),
    StepDef("perform_smear", "click_create_smear", UNDEFINED, "create_smear_button", "air_dry"),
    StepDef("air_dry", "next_step_button", UNDEFINED, "next_button", "microscope_observation"),
    StepDef("microscope_observation", "view_microscope", UNDEFINED, "microscope_icon", "procedure_complete"),
    StepDef("procedure_complete", "next_step_button", UNDEFINED, "next_button", "video_demonstration"),
    StepDef("video_demonstration", "next_step_button", UNDEFINED, "next_button", "mcq_challenge"),
    StepDef("mcq_challenge", "mcq_handled_internally", UNDEFINED, NULL, "final_completion"),
    StepDef("final_completion", NULL, UNDEFINED, NULL, NULL) >>

\* labProcedureSteps[i] of the source (0-based); undefined past the end.
Defined(i) == i \in 0..(Len(labProcedureSteps) - 1)
Proc(i) ==
    IF Defined(i) THEN labProcedureSteps[i + 1]
    ELSE StepDef(UNDEFINED, UNDEFINED, UNDEFINED, UNDEFINED, UNDEFINED)

\* labProcedureSteps.findIndex(step => step.id === id)
IndexOf(id) == CHOOSE i \in 0..(Len(labProcedureSteps) - 1) : Proc(i).id = id

Tools == {"alcohol_swab", "lancet", "clean_slide", "spreader_slide"}
Targets == {"finger", "blood_drop", "clean_slide_area"}
Buttons == {"next_button", "create_smear_button", "microscope_icon"}

CorrectAnswer == "To remove tissue fluid contamination."
Options == {CorrectAnswer, "To reduce pain for the patient."}

-----------------------------------------------------------------------------
(* Blood-smear App: re-render and effects.                                 *)

AppState == <<currentStep, score, feedbackMessage, isCorrectAction,
              activeTool, bloodDropVisible, slideHasBlood, smearQuality,
              showMicroscopeView>>

NotDwell(t) == t.kind # "dwell"

\* The auto-advance effect: its cleanup clears the dwell timer on every
\* re-render and the effect arms a new one while the auto step is active.
AutoAdvanceEffect(q) ==
    IF AppState' = AppState THEN q
    ELSE IF Proc(currentStep').action = "auto_advance_blood_drop"
         THEN Append(SelectSeq(q, NotDwell), DwellTimer)
         ELSE SelectSeq(q, NotDwell)

\* MCQChallenge is a component defined inside App: every App re-render
\* remounts it with fresh local state; it is mounted at mcq_challenge only.
MountMCQ ==
    IF AppState' # AppState \/ Proc(currentStep').id # "mcq_challenge"
    THEN selectedOption' = NULL /\ localIsCorrect' = NULL
    ELSE UNCHANGED <<selectedOption, localIsCorrect>>

\* q: the timer queue as the handler left it.
Render(q) ==
    /\ Len(AutoAdvanceEffect(q)) <= MaxPending
    /\ timers' = AutoAdvanceEffect(q)
    /\ MountMCQ
    /\ UNCHANGED <<app, safetyVars>>

\* The App state a handler closure reads, as one record.
S == [currentStep |-> currentStep, score |-> score,
      feedbackMessage |-> feedbackMessage, isCorrectAction |-> isCorrectAction,
      activeTool |-> activeTool, bloodDropVisible |-> bloodDropVisible,
      slideHasBlood |-> slideHasBlood, smearQuality |-> smearQuality,
      showMicroscopeView |-> showMicroscopeView]

\* What a handler leaves behind: the state updates it queued (s), the timer
\* queue (q), and whether it accepted the interaction for the active step.
Result(s, q, accepted) == [s |-> s, q |-> q, accepted |-> accepted]

\* Apply a handler's result, then re-render.
Commit(r) ==
    /\ currentStep' = r.s.currentStep
    /\ score' = r.s.score
    /\ feedbackMessage' = r.s.feedbackMessage
    /\ isCorrectAction' = r.s.isCorrectAction
    /\ activeTool' = r.s.activeTool
    /\ bloodDropVisible' = r.s.bloodDropVisible
    /\ slideHasBlood' = r.s.slideHasBlood
    /\ smearQuality' = r.s.smearQuality
    /\ showMicroscopeView' = r.s.showMicroscopeView
    /\ satisfied' = IF r.s.currentStep # currentStep THEN FALSE
                    ELSE (satisfied \/ r.accepted)
    /\ Render(r.q)

\* setFeedbackMessage(message); setIsCorrectAction(isCorrect)
SetFeedback(s, message, isCorrect) ==
    [s EXCEPT !.feedbackMessage = message, !.isCorrectAction = isCorrect]

\* setFeedbackMessage(''); setIsCorrectAction(null)
ClearFeedback(s) == SetFeedback(s, "", NULL)

-----------------------------------------------------------------------------
(* Blood-smear App: the handlers.  s is the state of the render whose      *)
(* closure runs, q the pending timers.                                     *)

\* handleDragStart with a rejection that also schedules the delayed advance.
handleDragStart_AdvanceOnReject(toolId, s, q) ==
    LET currentProcedure == Proc(s.currentStep) IN
    IF currentProcedure.tool = toolId
       /\ currentProcedure.action = "use_tool_on_target"
    THEN Result([ClearFeedback(s) EXCEPT !.activeTool = toolId], q, FALSE)
    ELSE Result(SetFeedback(s, "Please pick up the correct tool for this step.", "false"),
                Append(q, AdvanceTimer), FALSE)

handleDragStart(toolId, s, q) ==
    LET currentProcedure == Proc(s.currentStep) IN
    IF currentProcedure.tool = toolId
       /\ currentProcedure.action = "use_tool_on_target"
    THEN Result([ClearFeedback(s) EXCEPT !.activeTool = toolId], q, FALSE)
    ELSE Result(SetFeedback(s, "Please pick up the correct tool for this step.", "false"),
                Append(q, ClearTimer), FALSE)

\* The switch of handleDrop without the bloodDropVisible conditions.
DropOutcome_NoBloodCheck(s) ==
    LET id == Proc(s.currentStep).id
        Out(message, isCorrect, reward, blood, slide) ==
            [message |-> message, isCorrect |-> isCorrect, reward |-> reward,
             bloodDropVisible |-> blood, slideHasBlood |-> slide]
    IN CASE id = "clean_finger" ->
              Out("Finger cleaned successfully!", TRUE, 10,
                  s.bloodDropVisible, s.slideHasBlood)
         [] id = "apply_lancet" ->
              Out("Finger pricked! A blood drop appeared.", TRUE, 20,
                  TRUE, s.slideHasBlood)
         [] id = "wipe_blood" ->
              Out("First blood drop wiped away. Good!", TRUE, 10,
                  FALSE, s.slideHasBlood)
         [] id = "collect_blood_on_slide" ->
              Out("Blood collected on the slide!", TRUE, 20, FALSE, TRUE)
         [] OTHER ->
              Out("Invalid action for this specific step.", FALSE, 0,
                  s.bloodDropVisible, s.slideHasBlood)

\* The outcome of the switch of handleDrop for a drop that matches the
\* step's action, tool and target.
DropOutcome(s) ==
    LET id == Proc(s.currentStep).id
        Out(message, isCorrect, reward, blood, slide) ==
            [message |-> message, isCorrect |-> isCorrect, reward |-> reward,
             bloodDropVisible |-> blood, slideHasBlood |-> slide]
    IN CASE id = "clean_finger" ->
              Out("Finger cleaned successfully!", TRUE, 10,
                  s.bloodDropVisible, s.slideHasBlood)
         [] id = "apply_lancet" ->
              Out("Finger pricked! A blood drop appeared.", TRUE, 20,
                  TRUE, s.slideHasBlood)
         [] id = "wipe_blood" ->
              IF s.bloodDropVisible
              THEN Out("First blood drop wiped away. Good!", TRUE, 10,
                       FALSE, s.slideHasBlood)
              ELSE Out("There is no blood drop to wipe yet.", FALSE, 0,
                       s.bloodDropVisible, s.slideHasBlood)
         [] id = "collect_blood_on_slide" ->
              IF s.bloodDropVisible
              THEN Out("Blood collected on the slide!", TRUE, 20, FALSE, TRUE)
              ELSE Out("There is no blood drop to collect on the slide yet.",
                       FALSE, 0, s.bloodDropVisible, s.slideHasBlood)
         [] OTHER ->
              Out("Invalid action for this specific step.", FALSE, 0,
                  s.bloodDropVisible, s.slideHasBlood)

\* handleDrop that reads neither activeTool nor the step's tool.
handleDrop_IgnoresTool(targetId, s, q) ==
    LET currentProcedure == Proc(s.currentStep)
        out == IF currentProcedure.action = "use_tool_on_target"
                  /\ currentProcedure.target = targetId
               THEN DropOutcome(s)
               ELSE [message |-> "Incorrect action or target for this step.",
                     isCorrect |-> FALSE, reward |-> 0,
                     bloodDropVisible |-> s.bloodDropVisible,
                     slideHasBlood |-> s.slideHasBlood]
    IN IF ~Defined(s.currentStep)
       THEN Result(ClearFeedback(s), q, FALSE)
       ELSE Result([s EXCEPT !.activeTool = NULL,
                             !.score = s.score + out.reward,
                             !.feedbackMessage = out.message,
                             !.isCorrectAction = IF out.isCorrect THEN "true" ELSE "false",
                             !.bloodDropVisible = out.bloodDropVisible,
                             !.slideHasBlood = out.slideHasBlood],
                   Append(q, IF out.isCorrect THEN AdvanceTimer ELSE ClearTimer),
                   out.isCorrect)

handleDrop(targetId, s, q) ==
    LET toolId == s.activeTool
        currentProcedure == Proc(s.currentStep)
        out == IF currentProcedure.action = "use_tool_on_target"
                  /\ currentProcedure.tool = toolId
                  /\ currentProcedure.target = targetId
               THEN DropOutcome(s)
               ELSE [message |-> "Incorrect action or target for this step.",
                     isCorrect |-> FALSE, reward |-> 0,
                     bloodDropVisible |-> s.bloodDropVisible,
                     slideHasBlood |-> s.slideHasBlood]
    IN IF toolId = NULL
       THEN Result(SetFeedback(s, "Please pick up a tool first.", "false"),
                   Append(q, ClearTimer), FALSE)
       ELSE IF ~Defined(s.currentStep)
       THEN \* currentProcedure.action of undefined throws after the clear
            Result(ClearFeedback(s), q, FALSE)
       ELSE Result([s EXCEPT !.activeTool = NULL,
                             !.score = s.score + out.reward,
                             !.feedbackMessage = out.message,
                             !.isCorrectAction = IF out.isCorrect THEN "true" ELSE "false",
                             !.bloodDropVisible = out.bloodDropVisible,
                             !.slideHasBlood = out.slideHasBlood],
                   Append(q, IF out.isCorrect THEN AdvanceTimer ELSE ClearTimer),
                   out.isCorrect)

\* handleCreateSmear without setActiveTool(null).
handleCreateSmear_KeepsTool(s0, q) ==
    LET s == ClearFeedback(s0)
        currentProcedure == Proc(s.currentStep) IN
    IF s.activeTool = "spreader_slide" /\ s.slideHasBlood
       /\ currentProcedure.id = "perform_smear"
    THEN Result([s EXCEPT !.smearQuality = "good",
                          !.score = s.score + 30,
                          !.feedbackMessage = "Excellent! Good quality blood smear created.",
                          !.isCorrectAction = "true"],
                Append(q, AdvanceTimer), TRUE)
    ELSE Result(SetFeedback(s,
                    IF currentProcedure.id # "perform_smear"
                    THEN "It's not time to create the smear yet. Follow the steps."
                    ELSE IF s.activeTool # "spreader_slide"
                    THEN "First, pick up the Spreader Slide."
                    ELSE IF ~s.slideHasBlood
                    THEN "You need to collect blood on the slide first."
                    ELSE "",
                    "false"),
                Append(q, ClearTimer), FALSE)

\* handleCreateSmear that does not require blood on the slide.
handleCreateSmear_NoBloodCheck(s0, q) ==
    LET s == ClearFeedback(s0)
        currentProcedure == Proc(s.currentStep) IN
    IF s.activeTool = "spreader_slide" /\ currentProcedure.id = "perform_smear"
    THEN Result([s EXCEPT !.smearQuality = "good",
                          !.score = s.score + 30,
                          !.feedbackMessage = "Excellent! Good quality blood smear created.",
                          !.isCorrectAction = "true",
                          !.activeTool = NULL],
                Append(q, AdvanceTimer), TRUE)
    ELSE Result(SetFeedback(s,
                    IF currentProcedure.id # "perform_smear"
                    THEN "It's not time to create the smear yet. Follow the steps."
                    ELSE "First, pick up the Spreader Slide.",
                    "false"),
                Append(q, ClearTimer), FALSE)

handleCreateSmear(s0, q) ==
    LET s == ClearFeedback(s0)
        currentProcedure == Proc(s.currentStep) IN
    IF s.activeTool = "spreader_slide" /\ s.slideHasBlood
       /\ currentProcedure.id = "perform_smear"
    THEN Result([s EXCEPT !.smearQuality = "good",
                          !.score = s.score + 30,
                          !.feedbackMessage = "Excellent! Good quality blood smear created.",
                          !.isCorrectAction = "true",
                          !.activeTool = NULL],
                Append(q, AdvanceTimer), TRUE)
    ELSE Result(SetFeedback(s,
                    IF currentProcedure.id # "perform_smear"
                    THEN "It's not time to create the smear yet. Follow the steps."
                    ELSE IF s.activeTool # "spreader_slide"
                    THEN "First, pick up the Spreader Slide."
                    ELSE IF ~s.slideHasBlood
                    THEN "You need to collect blood on the slide first."
                    ELSE "",
                    "false"),
                Append(q, ClearTimer), FALSE)

\* The switch of handleAction: what the case of the step's action decides.
\* kind: "proceed" (proceedToNextStep), "feedback" (falls to the feedback
\* branch), "none" (neither branch applies) .
ActionOutcome(objectId, s) ==
    LET currentProcedure == Proc(s.currentStep)
        action == currentProcedure.action
        Out(kind, message, isCorrect, s2) ==
            [kind |-> kind, message |-> message, isCorrect |-> isCorrect, s |-> s2]
    IN CASE action = "pick_up_tool" ->
              IF objectId = currentProcedure.target
              THEN Out("proceed", "picked up.", TRUE, [s EXCEPT !.activeTool = objectId])
              ELSE Out("feedback", "Incorrect. Please pick up the correct tool.", FALSE, s)
         [] action = "next_step_button" ->
              IF objectId = "next_button"
              THEN Out("proceed", "Proceeding to the next step.", TRUE, s)
              ELSE Out("feedback", "Please click the \"Next\" button.", FALSE, s)
         [] action = "auto_advance_blood_drop" ->
              IF currentProcedure.id = "wait_for_second_drop"
              THEN Out("proceed", "Second blood drop formed. Now collect it!", TRUE,
                       [s EXCEPT !.bloodDropVisible = TRUE])
              ELSE Out("feedback", "", FALSE, s)
         [] action = "click_create_smear" ->
              Out("none", "", FALSE, s)
         [] action = "view_microscope" ->
              IF objectId = "microscope_icon"
              THEN Out("none", "Observing smear under microscope.", TRUE,
                       [s EXCEPT !.showMicroscopeView = TRUE])
              ELSE Out("none", "Incorrect. Click the microscope icon to view the smear.",
                       FALSE, s)
         [] OTHER ->
              Out("feedback", "Invalid action for this step.", FALSE, s)

handleAction(objectId, s, q) ==
    LET currentProcedure == Proc(s.currentStep)
        cleared == ClearFeedback(s)
        out == ActionOutcome(objectId, cleared)
    IN IF ~Defined(s.currentStep)
       THEN \* currentProcedure.action of undefined throws after the clear
            Result(cleared, q, FALSE)
       ELSE IF currentProcedure.action = "click_create_smear"
               /\ objectId = "create_smear_button"
       THEN handleCreateSmear(cleared, q)
       ELSE IF currentProcedure.action = "mcq_handled_internally"
       THEN Result(cleared, q, FALSE)
       ELSE IF out.kind = "proceed"
       THEN Result(out.s, Append(q, AdvanceTimer), TRUE)
       ELSE IF out.kind = "feedback"
       THEN Result(SetFeedback(out.s, out.message,
                               IF out.isCorrect THEN "true" ELSE "false"),
                   Append(q, ClearTimer), FALSE)
       ELSE Result(out.s, q, out.isCorrect)

\* resetSimulation without setSlideHasBlood(false).
resetSimulation_KeepsSlide(s) ==
    [currentStep |-> 0, score |-> 0, feedbackMessage |-> "",
     isCorrectAction |-> NULL, activeTool |-> NULL, bloodDropVisible |-> FALSE,
     slideHasBlood |-> s.slideHasBlood, smearQuality |-> NULL,
     showMicroscopeView |-> FALSE]

resetSimulation(s) ==
    [currentStep |-> 0, score |-> 0, feedbackMessage |-> "",
     isCorrectAction |-> NULL, activeTool |-> NULL, bloodDropVisible |-> FALSE,
     slideHasBlood |-> FALSE, smearQuality |-> NULL,
     showMicroscopeView |-> FALSE]

\* onQuizComplete that deducts points for a wrong answer.
onQuizComplete_Penalty(isAnswerCorrect, s, q) ==
    Result(IF isAnswerCorrect
           THEN [SetFeedback(s, "Correct! Well done.", "true")
                    EXCEPT !.score = s.score + 50]
           ELSE [SetFeedback(s, "Incorrect. Try to review the video demonstration.",
                             "false")
                    EXCEPT !.score = s.score - 10],
           Append(q, QuizAdvanceTimer), FALSE)

\* onQuizComplete(isAnswerCorrect) of the MCQChallenge element
onQuizComplete(isAnswerCorrect, s, q) ==
    Result(IF isAnswerCorrect
           THEN [SetFeedback(s, "Correct! Well done.", "true")
                    EXCEPT !.score = s.score + 50]
           ELSE SetFeedback(s, "Incorrect. Try to review the video demonstration.",
                            "false"),
           Append(q, QuizAdvanceTimer), FALSE)

\* A delayed-advance callback that steps back: setCurrentStep(prev => prev - 1).
advanceCallback_StepBack(s) == ClearFeedback([s EXCEPT !.currentStep = s.currentStep - 1])

\* The delayed-advance callback: setCurrentStep(prev => prev + 1) and clear.
advanceCallback(s) == ClearFeedback([s EXCEPT !.currentStep = s.currentStep + 1])

\* A feedback-clear callback that leaves the feedback on display.
clearCallback_KeepsFeedback(s) == s

\* The feedback-clear callback.
clearCallback(s) == ClearFeedback(s)

-----------------------------------------------------------------------------
(* Blood-smear App: what the rendered page offers.                         *)

\* The lab workspace is rendered (tools, targets and workspace buttons).
WorkspaceVisible ==
    /\ currentStep > 0
    /\ currentStep < IndexOf("video_demonstration")
    /\ ~showMicroscopeView

\* ToolButton: onClick is attached to the step's pick-up target only.
isClickable(id) ==
    Proc(currentStep).action = "pick_up_tool" /\ Proc(currentStep).target = id

\* ToolButton: draggable for the tool of a use_tool_on_target step only.
canBeDraggedFromPanel(id) ==
    Proc(currentStep).action = "use_tool_on_target" /\ Proc(currentStep).tool = id

\* TargetArea: onDrop is attached to the step's target while its tool is held.
isCurrentlyActiveTarget(id) ==
    Proc(currentStep).target = id /\ activeTool = Proc(currentStep).tool

Stale(q) == [i \in 1..Len(q) |-> [q[i] EXCEPT !.stale = TRUE]]

-----------------------------------------------------------------------------
(* Blood-smear App: the user's interactions.                               *)

StartSimulation ==
    /\ app = "smear"
    /\ currentStep = 0
    /\ ~showMicroscopeView
    /\ Commit(Result([S EXCEPT !.currentStep = 1], timers, TRUE))

ClickTool(id) ==
    /\ app = "smear"
    /\ WorkspaceVisible
    /\ isClickable(id)
    /\ Commit(handleAction(id, S, timers))

DragTool(id) ==
    /\ app = "smear"
    /\ WorkspaceVisible
    /\ canBeDraggedFromPanel(id)
    /\ Commit(handleDragStart(id, S, timers))

DropOnTarget(id) ==
    /\ app = "smear"
    /\ WorkspaceVisible
    /\ isCurrentlyActiveTarget(id)
    /\ Commit(handleDrop(id, S, timers))

ClickCreateSmear ==
    /\ app = "smear"
    /\ WorkspaceVisible
    /\ Proc(currentStep).id = "perform_smear"
    /\ activeTool = "spreader_slide"
    /\ slideHasBlood
    /\ Commit(handleAction("create_smear_button", S, timers))

\* The workspace button of air_dry, microscope_observation, procedure_complete.
ClickWorkspaceButton ==
    /\ app = "smear"
    /\ WorkspaceVisible
    /\ Proc(currentStep).id \in {"air_dry", "microscope_observation", "procedure_complete"}
    /\ LET objectId == IF Proc(currentStep).id = "microscope_observation"
                       THEN "microscope_icon" ELSE "next_button"
       IN Commit(handleAction(objectId, S, timers))

\* A "Close View & Finish" that closes the view and stays on the step.
CloseMicroscopeView_KeepsStep ==
    /\ app = "smear"
    /\ showMicroscopeView
    /\ Commit(Result([S EXCEPT !.showMicroscopeView = FALSE], timers, FALSE))

\* "Close View & Finish" of the microscope view.
CloseMicroscopeView ==
    /\ app = "smear"
    /\ showMicroscopeView
    /\ Commit(Result([S EXCEPT !.showMicroscopeView = FALSE,
                               !.currentStep = currentStep + 1],
                     timers, FALSE))

\* "Next" of the VideoPlayer.
VideoNext ==
    /\ app = "smear"
    /\ Proc(currentStep).id = "video_demonstration"
    /\ ~showMicroscopeView
    /\ Commit(handleAction("next_button", S, timers))

\* An option button of MCQChallenge (disabled once answered).
SelectOption(option) ==
    /\ app = "smear"
    /\ Proc(currentStep).id = "mcq_challenge"
    /\ ~showMicroscopeView
    /\ localIsCorrect = NULL
    /\ selectedOption' = option
    /\ UNCHANGED <<app, currentStep, timers, score, feedbackMessage,
                   isCorrectAction, activeTool, bloodDropVisible, slideHasBlood,
                   smearQuality, showMicroscopeView, localIsCorrect, safetyVars,
                   satisfied>>

\* MCQChallenge.handleSubmit ("Submit Answer", disabled once answered).
handleSubmit ==
    /\ app = "smear"
    /\ Proc(currentStep).id = "mcq_challenge"
    /\ ~showMicroscopeView
    /\ localIsCorrect = NULL
    /\ IF selectedOption = NULL
       THEN UNCHANGED <<localIsCorrect, timers, satisfied>>
       ELSE /\ localIsCorrect' = IF selectedOption = CorrectAnswer THEN "true" ELSE "false"
            /\ Len(timers) < MaxPending
            /\ timers' = Append(timers, QuizTimer(selectedOption = CorrectAnswer))
            /\ satisfied' = TRUE
    /\ UNCHANGED <<app, currentStep, score, feedbackMessage, isCorrectAction,
                   activeTool, bloodDropVisible, slideHasBlood, smearQuality,
                   showMicroscopeView, selectedOption, safetyVars>>

\* "Restart Simulation" of the final screen.
RestartSimulation ==
    /\ app = "smear"
    /\ Proc(currentStep).id = "final_completion"
    /\ ~showMicroscopeView
    /\ Commit(Result(resetSimulation(S), Stale(timers), FALSE))

-----------------------------------------------------------------------------
(* Blood-smear App: timer callbacks.                                       *)

FireAdvance(i) ==
    /\ app = "smear"
    /\ CanFire(i)
    /\ timers[i].kind = "advance"
    /\ Commit(Result(advanceCallback(S), Remove(timers, i), FALSE))

FireClear(i) ==
    /\ app = "smear"
    /\ CanFire(i)
    /\ timers[i].kind = "clear"
    /\ Commit(Result(clearCallback(S), Remove(timers, i), FALSE))

FireQuiz(i) ==
    /\ app = "smear"
    /\ CanFire(i)
    /\ timers[i].kind = "quiz"
    /\ Commit(onQuizComplete(timers[i].isAnswerCorrect, S, Remove(timers, i)))

\* The dwell timer of the auto-advance effect: handleAction(currentProcedure.target)
FireDwell(i) ==
    /\ app = "smear"
    /\ CanFire(i)
    /\ timers[i].kind = "dwell"
    /\ Commit(handleAction(Proc(currentStep).target, S, Remove(timers, i)))

FireSmearTimer ==
    \E i \in 1..MaxPending :
        FireAdvance(i) \/ FireClear(i) \/ FireQuiz(i) \/ FireDwell(i)

-----------------------------------------------------------------------------
(* 3D safety App: the procedure and the scene.                             *)

PROCEDURE == <<
    [id |-> 0, title |-> "Wear Lab Coat and Safety Goggles"],
    [id |-> 1, title |-> "Calibrate Analytical Balance"],
    [id |-> 2, title |-> "Measure 50ml of Water"],
    [id |-> 3, title |-> "Weigh the Filled Cylinder"],
    [id |-> 4, title |-> "Dispose of Waste Properly"] >>

\* validate with step 0 accepting either garment alone.
validate_EitherGarment(step, state) ==
    CASE step = 0 -> state.wearingLabCoat \/ state.wearingGoggles
      [] step = 1 -> state.balanceCalibrated
      [] step = 2 -> state.cylinderFilled /\ state.cylinderAtBench
      [] step = 3 -> state.cylinderWeighed
      [] step = 4 -> state.wasteDisposed
      [] OTHER -> FALSE

\* PROCEDURE[step].validate(state)
validate(step, state) ==
    CASE step = 0 -> state.wearingLabCoat /\ state.wearingGoggles
      [] step = 1 -> state.balanceCalibrated
      [] step = 2 -> state.cylinderFilled /\ state.cylinderAtBench
      [] step = 3 -> state.cylinderWeighed
      [] step = 4 -> state.wasteDisposed
      [] OTHER -> FALSE

InitSimState ==
    [wearingLabCoat |-> FALSE, wearingGoggles |-> FALSE,
     balanceCalibrated |-> FALSE, cylinderPicked |-> FALSE,
     cylinderFilled |-> FALSE, cylinderAtBench |-> FALSE,
     cylinderWeighed |-> FALSE, wasteDisposed |-> FALSE, dragging |-> NULL]

\* Scene coordinates in hundredths of a unit.
Vec(x, y, z) == [x |-> x, y |-> y, z |-> z]
SinkPos == Vec(-220, 93, -150)
BenchMainPos == Vec(0, 87, 60)
BalancePos == Vec(108, 94, 22)
WasteBinPos == Vec(235, 97, 49)
CylinderHome == Vec(-110, 98, 32)

\* Where a drag can leave the cylinder (on the plane y = 0.98): at its home,
\* at the sink, on the bench, on the bench beside the balance, at the
\* balance off the bench, at the waste bin.
Positions ==
    {CylinderHome, Vec(-220, 98, -150), Vec(0, 98, 60), Vec(90, 98, 22),
     Vec(120, 98, 22), Vec(235, 98, 49)}

Abs(n) == IF n < 0 THEN -n ELSE n
Sq(n) == n * n
\* a.distanceTo(b) < r, with r in hundredths
Within(a, b, r) == Sq(a.x - b.x) + Sq(a.y - b.y) + Sq(a.z - b.z) < Sq(r)

\* PROCEDURE[currentStep] is defined: the last render did not throw.
Mounted == currentStep \in 0..(Len(PROCEDURE) - 1)

\* The step progression effect runs after a render with a new simState.
ProgressionEffect(q, state) ==
    IF validate(currentStep, state)
    THEN Append(q, ProgressTimer(currentStep))
    ELSE q

\* setSimState(...) of one handler, the re-render and its effect.
SetSimState(state) ==
    /\ simState' = state
    /\ Len(ProgressionEffect(timers, state)) <= MaxPending
    /\ timers' = ProgressionEffect(timers, state)
    /\ satisfied' = (satisfied \/ validate(currentStep, state))
    /\ UNCHANGED <<app, currentStep, smearVars, showModal>>

Interactive == app = "safety" /\ Mounted /\ ~showModal

-----------------------------------------------------------------------------
(* 3D safety App: handlers.                                                *)

handleWearLabCoat ==
    /\ Interactive
    /\ ~simState.wearingLabCoat
    /\ SetSimState([simState EXCEPT !.wearingLabCoat = TRUE])
    /\ feedback' = "Lab coat worn."
    /\ UNCHANGED cylinderPos

handleWearGoggles ==
    /\ Interactive
    /\ ~simState.wearingGoggles
    /\ SetSimState([simState EXCEPT !.wearingGoggles = TRUE])
    /\ feedback' = "Safety goggles worn."
    /\ UNCHANGED cylinderPos

\* pickedObj: the object the ray hits first among the cylinder and the pipette
onPointerDown(pickedObj) ==
    /\ Interactive
    /\ simState.dragging = NULL
    /\ \/ pickedObj = "cylinder" /\ currentStep \in {2, 3}
       \/ pickedObj = "pipette" /\ currentStep = 2
    /\ SetSimState([simState EXCEPT !.dragging = pickedObj])
    /\ UNCHANGED <<cylinderPos, feedback>>

\* The dragged cylinder follows the pointer (the pipette's position is read
\* by nothing and is not kept).
onPointerMove(pos) ==
    /\ Interactive
    /\ simState.dragging = "cylinder"
    /\ cylinderPos' = pos
    /\ UNCHANGED <<app, currentStep, timers, smearVars, simState, feedback,
                   showModal, satisfied>>

\* The flag updates of onPointerUp for the cylinder; every condition reads the
\* simState of the render, the updates apply in order.
atSink == Within(cylinderPos, SinkPos, 55) /\ ~simState.cylinderFilled
atBench ==
    /\ simState.cylinderFilled
    /\ Abs(cylinderPos.x - BenchMainPos.x) < 100
    /\ Abs(cylinderPos.z - BenchMainPos.z) < 70
\* The balance condition without the cylinderFilled test.
atBalance_Unfilled == Within(cylinderPos, BalancePos, 38)

atBalance == simState.cylinderFilled /\ Within(cylinderPos, BalancePos, 38)
\* The waste-bin condition without the cylinderFilled test.
atBin_Unfilled == Within(cylinderPos, WasteBinPos, 33)

atBin == Within(cylinderPos, WasteBinPos, 33) /\ simState.cylinderFilled

Released ==
    LET s1 == IF atSink THEN [simState EXCEPT !.cylinderFilled = TRUE] ELSE simState
        s2 == IF atBench THEN [s1 EXCEPT !.cylinderAtBench = TRUE] ELSE s1
        s3 == IF atBalance THEN [s2 EXCEPT !.cylinderWeighed = TRUE] ELSE s2
        s4 == IF atBin THEN [s3 EXCEPT !.wasteDisposed = TRUE,
                                       !.cylinderFilled = FALSE,
                                       !.cylinderAtBench = FALSE,
                                       !.cylinderWeighed = FALSE]
              ELSE s3
    IN s4

ReleaseFeedback ==
    IF atBin THEN "Waste properly disposed!"
    ELSE IF atBalance THEN "Cylinder weighed! Display: 53.4g"
    ELSE IF atBench THEN "Cylinder placed on the bench."
    ELSE IF atSink THEN "Cylinder filled with 50ml of water!"
    ELSE feedback

onPointerUp ==
    /\ Interactive
    /\ simState.dragging # NULL
    /\ IF simState.dragging = "cylinder"
       THEN /\ SetSimState([Released EXCEPT !.dragging = NULL])
            /\ feedback' = ReleaseFeedback
            /\ cylinderPos' = IF atBin THEN CylinderHome ELSE cylinderPos
       ELSE /\ SetSimState([simState EXCEPT !.dragging = NULL])
            /\ feedback' = "Pipette interaction is not required in this step."
            /\ UNCHANGED cylinderPos

\* A click whose ray hits the balance.
onBalanceClick ==
    /\ Interactive
    /\ \/ /\ currentStep = 1 /\ ~simState.balanceCalibrated
          /\ SetSimState([simState EXCEPT !.balanceCalibrated = TRUE])
          /\ feedback' = "Balance calibrated (zeroed)!"
       \/ /\ ~(currentStep = 1 /\ ~simState.balanceCalibrated)
          /\ simState.cylinderFilled /\ currentStep = 3
          /\ SetSimState([simState EXCEPT !.cylinderWeighed = TRUE])
          /\ feedback' = "Cylinder weighed! Display: 53.4g"
    /\ UNCHANGED cylinderPos

\* "Close" of the completion modal.
CloseModal ==
    /\ app = "safety"
    /\ Mounted
    /\ showModal
    /\ showModal' = FALSE
    /\ UNCHANGED <<app, currentStep, timers, smearVars, simState, cylinderPos,
                   feedback, satisfied>>

\* The callback the step progression effect scheduled; step is the
\* currentStep of the render that scheduled it.
FireProgress(i) ==
    /\ app = "safety"
    /\ Mounted
    /\ CanFire(i)
    /\ timers[i].kind = "progress"
    /\ IF timers[i].step < Len(PROCEDURE) - 1
       THEN /\ currentStep' = currentStep + 1
            /\ feedback' = ""
            /\ satisfied' = validate(currentStep + 1, simState)
            /\ UNCHANGED showModal
       ELSE /\ feedback' = "Congratulations! You have completed all safety & handling steps."
            /\ showModal' = TRUE
            /\ UNCHANGED <<currentStep, satisfied>>
    /\ timers' = Remove(timers, i)
    /\ UNCHANGED <<app, smearVars, simState, cylinderPos>>

-----------------------------------------------------------------------------

\* The state after the first render of either App.
Mount ==
    /\ currentStep = 0
    /\ timers = <<>>
    /\ score = 0
    /\ feedbackMessage = ""
    /\ isCorrectAction = NULL
    /\ activeTool = NULL
    /\ bloodDropVisible = FALSE
    /\ slideHasBlood = FALSE
    /\ smearQuality = NULL
    /\ showMicroscopeView = FALSE
    /\ selectedOption = NULL
    /\ localIsCorrect = NULL
    /\ simState = InitSimState
    /\ cylinderPos = CylinderHome
    /\ feedback = ""
    /\ showModal = FALSE
    /\ satisfied = FALSE

Init == app \in {"smear", "safety"} /\ Mount

NextSmear ==
    \/ StartSimulation
    \/ \E id \in Tools : ClickTool(id)
    \/ \E id \in Tools : DragTool(id)
    \/ \E id \in Targets : DropOnTarget(id)
    \/ ClickCreateSmear
    \/ ClickWorkspaceButton
    \/ CloseMicroscopeView
    \/ VideoNext
    \/ \E option \in Options : SelectOption(option)
    \/ handleSubmit
    \/ RestartSimulation
    \/ FireSmearTimer

NextSafety ==
    \/ handleWearLabCoat
    \/ handleWearGoggles
    \/ \E pickedObj \in {"cylinder", "pipette"} : onPointerDown(pickedObj)
    \/ \E pos \in Positions : onPointerMove(pos)
    \/ onPointerUp
    \/ onBalanceClick
    \/ CloseModal
    \/ \E i \in 1..MaxPending : FireProgress(i)

-----------------------------------------------------------------------------
(* The blood-smear handlers driven directly: every handler with every      *)
(* argument of its signature, in every state, as a caller that does not go *)
(* through the rendered page (a test, another view) can.  The page's own   *)
(* buttons and the timers are as in Spec.                                  *)

CallHandleAction(objectId) ==
    /\ app = "smear"
    /\ Commit(handleAction(objectId, S, timers))

CallHandleDragStart(toolId) ==
    /\ app = "smear"
    /\ Commit(handleDragStart(toolId, S, timers))

CallHandleDrop(targetId) ==
    /\ app = "smear"
    /\ Commit(handleDrop(targetId, S, timers))

CallHandleCreateSmear ==
    /\ app = "smear"
    /\ Commit(handleCreateSmear(S, timers))

CallResetSimulation ==
    /\ app = "smear"
    /\ Commit(Result(resetSimulation(S), Stale(timers), FALSE))

NextHandlers ==
    \/ StartSimulation
    \/ \E objectId \in Tools \cup Buttons : CallHandleAction(objectId)
    \/ \E toolId \in Tools : CallHandleDragStart(toolId)
    \/ \E targetId \in Targets : CallHandleDrop(targetId)
    \/ CallHandleCreateSmear
    \/ CallResetSimulation
    \/ CloseMicroscopeView
    \/ \E option \in Options : SelectOption(option)
    \/ handleSubmit
    \/ FireSmearTimer

InitHandlers == app = "smear" /\ Mount

SpecHandlers == InitHandlers /\ [][NextHandlers]_vars

Next == NextSmear \/ NextSafety

Spec == Init /\ [][Next]_vars

-----------------------------------------------------------------------------
(* Properties.                                                             *)

FinalIndex == IndexOf("final_completion")

\* The number of pending delayed-advance callbacks.
NumAdvance(q) == Cardinality({i \in 1..Len(q) : q[i].kind = "advance"})

\* The simulation flags of the blood-smear App.
flags == <<bloodDropVisible, slideHasBlood, smearQuality, showMicroscopeView>>

\* A delayed-advance or feedback-clear timer scheduled before the last reset
\* runs its callback.
FireStale ==
    \E i \in 1..Len(timers) :
        /\ timers[i].stale
        /\ FireAdvance(i) \/ FireClear(i)

\* C1: in both simulations currentStep never decreases from one state to the
\* next, except when resetSimulation sets it back to 0.
C1_MonotonicProgress ==
    [][currentStep' >= currentStep \/ (RestartSimulation /\ currentStep' = 0)]_vars

\* C1 witness: the simulation ran to the final step and was reset while an
\* earlier timer was still pending.
C1_Witness ==
    app = "smear" /\ currentStep = 0 /\ timers # <<>> /\ timers[1].stale

\* C2: in the blood-smear simulation currentStep moves from n to n + 1 only if
\* an interaction satisfying step n's required action was processed while
\* currentStep was n (Start Simulation is the interaction of step 0); two
\* satisfying interactions during one step advance it by one, not two.
C2_NoSkipWithoutValidation ==
    [][(app = "smear" /\ currentStep' = currentStep + 1)
          => (satisfied \/ StartSimulation)]_vars

\* C3: in the 3D safety simulation currentStep moves from n to n + 1 only if
\* PROCEDURE[n].validate(simState) held in some state in which currentStep
\* was n.
C3_NoSkipWithoutValidate ==
    [][(app = "safety" /\ currentStep' = currentStep + 1) => satisfied]_vars

\* C4: once currentStep is the index of final_completion it stays there under
\* every interaction and timer until resetSimulation; it never becomes 18.
C4_TerminalAbsorbing ==
    [][(app = "smear" /\ currentStep = FinalIndex)
          => (currentStep' = FinalIndex \/ RestartSimulation)]_vars

\* C5: after resetSimulation no timer scheduled before the reset changes
\* currentStep, score, the flags, activeTool or the feedback when it fires.
C5_ResetInvalidatesTimers ==
    [][FireStale => UNCHANGED <<currentStep, score, flags, activeTool,
                                feedbackMessage, isCorrectAction>>]_vars

\* C6: in the state immediately after resetSimulation, whatever the state
\* before it, currentStep = 0, score = 0, no tool is held, bloodDropVisible,
\* slideHasBlood and showMicroscopeView are false, smearQuality is none and
\* the feedback is empty.
C6_ResetRestoresStartup ==
    [][CallResetSimulation =>
          /\ currentStep' = 0
          /\ score' = 0
          /\ activeTool' = NULL
          /\ bloodDropVisible' = FALSE
          /\ slideHasBlood' = FALSE
          /\ smearQuality' = NULL
          /\ showMicroscopeView' = FALSE
          /\ feedbackMessage' = ""
          /\ isCorrectAction' = NULL]_vars

\* C6 witness: resetSimulation ran over a state with two callbacks pending,
\* both scheduled before it.
C6_Witness ==
    /\ Len(timers) >= 2
    /\ \A i \in 1..Len(timers) : timers[i].stale
    /\ currentStep = 0 /\ score = 0 /\ activeTool = NULL /\ feedbackMessage = ""

\* The non-matching interactions of the blood-smear App.
WrongToolClick ==
    \E objectId \in Tools :
        /\ Proc(currentStep).action = "pick_up_tool"
        /\ objectId # Proc(currentStep).target
        /\ CallHandleAction(objectId)

WrongToolDrag ==
    \E toolId \in Tools :
        /\ toolId # Proc(currentStep).tool
        /\ CallHandleDragStart(toolId)

WrongTargetDrop ==
    \E targetId \in Targets :
        /\ targetId # Proc(currentStep).target
        /\ CallHandleDrop(targetId)

NoToolDrop ==
    \E targetId \in Targets : activeTool = NULL /\ CallHandleDrop(targetId)

UntimelyCreateSmear ==
    /\ ~(/\ activeTool = "spreader_slide"
         /\ slideHasBlood
         /\ Proc(currentStep).id = "perform_smear")
    /\ CallHandleCreateSmear

NonMatching ==
    \/ WrongToolClick
    \/ WrongToolDrag
    \/ WrongTargetDrop
    \/ NoToolDrop
    \/ UntimelyCreateSmear

\* C7: every non-matching interaction (a click on a tool other than the
\* pick-up target of a pick-up step, a drag of a tool that is not the step's
\* tool, a drop on a target other than the step's target, a drop with no tool
\* held, a smear creation outside its preconditions) leaves currentStep, score,
\* bloodDropVisible, slideHasBlood and smearQuality unchanged and adds no
\* delayed advance; so does any number of them in a row.
C7_IdempotentRejection ==
    [][\/ /\ UNCHANGED <<currentStep, score, bloodDropVisible, slideHasBlood,
                            smearQuality>>
             /\ NumAdvance(timers') = NumAdvance(timers)
          \/ ~NonMatching]_vars

\* C7 witness: the wrong tool was clicked twice in a row at a pick-up step;
\* both feedback-clear timers are pending.
C7_Witness ==
    /\ Proc(currentStep).action = "pick_up_tool"
    /\ feedbackMessage = "Incorrect. Please pick up the correct tool."
    /\ timers = <<ClearTimer, ClearTimer>>

\* C8: in the 3D safety simulation releasing the filled cylinder at the balance
\* while step 2 is active leaves cylinderWeighed unchanged, and releasing it at
\* the waste bin while step 2 or 3 is active leaves wasteDisposed,
\* cylinderFilled, cylinderAtBench and cylinderWeighed unchanged.
C8_NonMatchingMutatesNoFlag ==
    [][(onPointerUp /\ simState.dragging = "cylinder") =>
          /\ (currentStep = 2 /\ atBalance)
                => simState'.cylinderWeighed = simState.cylinderWeighed
          /\ (currentStep \in {2, 3} /\ atBin)
                => /\ simState'.wasteDisposed = simState.wasteDisposed
                   /\ simState'.cylinderFilled = simState.cylinderFilled
                   /\ simState'.cylinderAtBench = simState.cylinderAtBench
                   /\ simState'.cylinderWeighed = simState.cylinderWeighed]_vars

\* A drop was accepted: reward added, a flag set or an advance scheduled.
DropAccepted ==
    \/ score' > score
    \/ bloodDropVisible' # bloodDropVisible
    \/ slideHasBlood' # slideHasBlood
    \/ NumAdvance(timers') > NumAdvance(timers)
    \/ isCorrectAction' = "true"

\* C9: a drop is accepted only if the active step's action is
\* use_tool_on_target, the held tool is the step's tool and the drop target is
\* the step's target; a drop while no tool is held is rejected with the
\* incorrect feedback "Please pick up a tool first." and changes neither
\* currentStep, score nor any flag.
C9_OrderDependency ==
    [][\A targetId \in Targets :
          CallHandleDrop(targetId) =>
             /\ DropAccepted =>
                   /\ Proc(currentStep).action = "use_tool_on_target"
                   /\ activeTool = Proc(currentStep).tool
                   /\ targetId = Proc(currentStep).target
             /\ activeTool = NULL =>
                   /\ feedbackMessage' = "Please pick up a tool first."
                   /\ isCorrectAction' = "false"
                   /\ UNCHANGED <<currentStep, score, flags>>]_vars

\* C9 witness: a drop was processed with no tool held at a step whose action
\* is use_tool_on_target.
C9_Witness ==
    /\ Proc(currentStep).action = "use_tool_on_target"
    /\ activeTool = NULL
    /\ feedbackMessage = "Please pick up a tool first."
    /\ isCorrectAction = "false"

NoBloodMessage ==
    IF Proc(currentStep).id = "wipe_blood"
    THEN "There is no blood drop to wipe yet."
    ELSE "There is no blood drop to collect on the slide yet."

\* C10: at wipe_blood and collect_blood_on_slide a drop with the step's tool on
\* the step's target while bloodDropVisible is false is rejected with the
\* step's own incorrect message, adds no score, does not set slideHasBlood and
\* schedules no advance; and slideHasBlood becomes true only from a state in
\* which bloodDropVisible is true.
C10_BloodBeforeWipeOrCollect ==
    [][/\ \A targetId \in Targets :
            (/\ DropOnTarget(targetId)
             /\ Proc(currentStep).id \in {"wipe_blood", "collect_blood_on_slide"}
             /\ ~bloodDropVisible)
            => /\ feedbackMessage' = NoBloodMessage
               /\ isCorrectAction' = "false"
               /\ UNCHANGED <<score, slideHasBlood, currentStep>>
               /\ NumAdvance(timers') = NumAdvance(timers)
       /\ (app = "smear" /\ ~slideHasBlood /\ slideHasBlood') => bloodDropVisible]_vars

\* C10 witness: the clean slide was dropped on the blood drop target at
\* collect_blood_on_slide while no blood drop was visible.
C10_Witness ==
    /\ Proc(currentStep).id = "collect_blood_on_slide"
    /\ feedbackMessage = "There is no blood drop to collect on the slide yet."
    /\ ~slideHasBlood

-----------------------------------------------------------------------------
(* Timers run: a pending setTimeout callback is eventually called by the   *)
(* event loop.  SpecLive is Spec with that as weak fairness of the timer   *)
(* callbacks; the user's interactions stay unconstrained.                  *)

FireSafetyTimer == \E i \in 1..MaxPending : FireProgress(i)

SpecLive ==
    /\ Init
    /\ [][Next]_vars
    /\ WF_vars(FireSmearTimer)
    /\ WF_vars(FireSafetyTimer)

BothWorn == simState.wearingLabCoat /\ simState.wearingGoggles

\* C11: in the 3D safety simulation currentStep stays 0 as long as the lab
\* coat or the goggles are missing; once both are worn currentStep becomes 1;
\* and it goes on to 2 only from a state of step 1 in which balanceCalibrated
\* is true, so that wearing both advances the step exactly once.
C11_ScenarioA ==
    /\ [](app = "safety" /\ ~BothWorn => currentStep = 0)
    /\ [][(app = "safety" /\ currentStep <= 1 /\ currentStep' > 1)
             => (currentStep = 1 /\ currentStep' = 2
                 /\ simState.balanceCalibrated)]_vars
    /\ (app = "safety" /\ BothWorn) ~> (currentStep >= 1)

\* C11 witness: both were put on, the step advanced to 1 and nothing else is
\* pending: the step rests at 1 with the balance not calibrated.
C11_Witness ==
    /\ app = "safety"
    /\ BothWorn
    /\ currentStep = 1
    /\ timers = <<>>
    /\ ~simState.balanceCalibrated

WaitIndex == IndexOf("wait_for_second_drop")

\* C12: currentStep leaves wait_for_second_drop only after the dwell callback
\* ran there and made bloodDropVisible true, and it leaves it by exactly one
\* index, to collect_second_drop (the page offers no interaction during the
\* step, so every step of the model taken there is a timer firing).
C12_ScenarioC ==
    [][(app = "smear" /\ currentStep = WaitIndex /\ currentStep' # WaitIndex)
          => /\ currentStep' = WaitIndex + 1
             /\ satisfied
             /\ bloodDropVisible]_vars

\* The simulation flags a release of the cylinder can change.
ReleaseFlags == {"cylinderFilled", "cylinderAtBench", "cylinderWeighed", "wasteDisposed"}

\* C13: a single release of the dragged cylinder changes at most one of
\* cylinderFilled, cylinderAtBench, cylinderWeighed and wasteDisposed, also
\* where the release position passes several proximity tests at once.
C13_OneFlagPerRelease ==
    [][(onPointerUp /\ simState.dragging = "cylinder")
          => Cardinality({f \in ReleaseFlags : simState'[f] # simState[f]}) <= 1]_vars

\* Every handler that sets a feedback message schedules, in the same run, the
\* timer that clears it (a feedback-clear timer or a delayed advance), and
\* every handler that schedules one begins by clearing the feedback.  So while
\* a message is displayed its own timer is the last of these in the queue, and
\* a feedback-clear timer with a later one behind it was scheduled for an
\* earlier message.
NewerTimerPending(i) ==
    \E j \in (i + 1)..Len(timers) : timers[j].kind \in {"clear", "advance"}

\* C14: a feedback-clear timer scheduled for an earlier message leaves the
\* message displayed now, which was set after that timer was scheduled, as it
\* is.
C14_StaleClearKeepsNewerFeedback ==
    [][\A i \in 1..MaxPending :
          (FireClear(i) /\ feedbackMessage # "" /\ NewerTimerPending(i))
             => feedbackMessage' = feedbackMessage]_vars

\* The fixed rewards: clean_finger and wipe_blood 10, apply_lancet and
\* collect_blood_on_slide 20, the smear 30, the quiz 50.
Rewards == {10, 20, 30, 50}

\* C15: in the blood-smear simulation score never decreases from one state to
\* the next except when resetSimulation sets it to 0, and every increase is by
\* one of the rewards 10, 20, 30, 50.
C15_ScoreMonotone ==
    [][app = "smear" =>
          \/ score' = score
          \/ score' - score \in Rewards
          \/ RestartSimulation /\ score' = 0]_vars

\* C15 witness: a run collected every reward once and stands at the final
\* screen.
C15_Witness ==
    /\ app = "smear"
    /\ currentStep = FinalIndex
    /\ score = 140

\* C16: once currentStep is final_completion, score does not change until
\* resetSimulation, whichever timer scheduled earlier fires there.
C16_ScoreFinalAtTerminal ==
    [][(app = "smear" /\ currentStep = FinalIndex)
          => (score' = score \/ RestartSimulation)]_vars

\* C17: in every reachable state of the 3D safety simulation currentStep is in
\* 0..4, an index of PROCEDURE.
C17_StepInsideCatalog ==
    app = "safety" => currentStep \in 0..(Len(PROCEDURE) - 1)

\* C18: in every reachable state of the blood-smear simulation whose step is
\* not final_completion, some interaction offered by the page or some pending
\* timer is enabled; no non-terminal state leaves the simulation with nothing
\* that can act.
C18_NoStuckState ==
    (app = "smear" /\ currentStep # FinalIndex) => ENABLED NextSmear

\* C19: whenever the 3D safety simulation is at step 4 (Dispose of Waste
\* Properly) with the completion modal not shown and the waste not yet
\* disposed, the interaction that disposes it is available: the cylinder is
\* being dragged or can be picked up (wasteDisposed is set by releasing the
\* dragged cylinder at the waste bin and by nothing else).
C19_DisposalReachable ==
    (app = "safety" /\ currentStep = 4 /\ ~showModal /\ ~simState.wasteDisposed)
       => (simState.dragging = "cylinder" \/ ENABLED onPointerDown("cylinder"))

\* An interaction of the page or the auto step satisfied the active step: it
\* scheduled the delayed advance.
StepSatisfied ==
    /\ \/ \E id \in Tools : ClickTool(id)
       \/ \E id \in Targets : DropOnTarget(id)
       \/ ClickCreateSmear
       \/ ClickWorkspaceButton
       \/ VideoNext
       \/ \E i \in 1..MaxPending : FireDwell(i)
    /\ NumAdvance(timers') > NumAdvance(timers)

\* C20: whenever an interaction satisfies the active step (correct tool
\* clicked, Next clicked, accepted drop, smear creation, the auto step), the
\* resulting state shows a non-empty feedback message tagged correct.
C20_SuccessFeedbackShown ==
    [][StepSatisfied => (feedbackMessage' # "" /\ isCorrectAction' = "true")]_vars

\* A pending callback that clears the feedback when it runs.
ClearingTimerPending ==
    \E i \in 1..Len(timers) : timers[i].kind \in {"clear", "advance"}

\* C21: in the blood-smear simulation, under fair firing of timers, a
\* non-empty feedback message is always followed by a state with an empty
\* message and a null correctness tag, and a timer that clears it is already
\* pending while it shows (no further interaction is needed).
C21_FeedbackTransient ==
    /\ [](app = "smear" /\ feedbackMessage # "" => ClearingTimerPending)
    /\ (app = "smear" /\ feedbackMessage # "")
          ~> (feedbackMessage = "" /\ isCorrectAction = NULL)

C21_Witness ==
    /\ app = "smear"
    /\ feedbackMessage # ""
    /\ isCorrectAction = "false"
    /\ \E i \in 1..Len(timers) : timers[i].kind = "clear"

\* A drop is processed while a tool is held (the handler runs to its end:
\* the active step is a step of the catalog).
DropWhileHeld ==
    /\ activeTool # NULL
    /\ Defined(currentStep)
    /\ \E targetId \in Targets : CallHandleDrop(targetId)

\* A smear creation succeeded: the smear was drawn and rewarded.
SmearCreated ==
    /\ CallHandleCreateSmear \/ CallHandleAction("create_smear_button")
    /\ smearQuality' = "good"
    /\ score' = score + 30

\* C22: after every drop processed while a tool is held, accepted or
\* rejected, and after every successful smear creation, activeTool is none.
C22_ToolReleasedAfterUse ==
    [][activeTool' = NULL \/ ~(DropWhileHeld \/ SmearCreated)]_vars

\* C22 witness: a drop on the wrong target was rejected while a tool was held.
C22_Witness ==
    /\ app = "smear"
    /\ feedbackMessage = "Incorrect action or target for this step."
    /\ isCorrectAction = "false"
    /\ activeTool = NULL

NumSteps == 18

\* The step ids are pairwise distinct, only the last step has no nextStep,
\* and every other step's nextStep is the id of the step at the next index.
CatalogWellFormed ==
    /\ Len(labProcedureSteps) = NumSteps
    /\ \A i, j \in 0..(NumSteps - 1) : Proc(i).id = Proc(j).id => i = j
    /\ \A i \in 0..(NumSteps - 1) : (Proc(i).nextStep = NULL) <=> (i = NumSteps - 1)
    /\ \A i \in 0..(NumSteps - 2) : Proc(i).nextStep = Proc(i + 1).id
    /\ Proc(NumSteps - 1).id = "final_completion"

\* C23: the blood-smear catalog is well formed and linear, so an advance by
\* index + 1 from a step that is not the last lands on the step named by the
\* nextStep of the step being left.
C23_CatalogLinear ==
    /\ []CatalogWellFormed
    /\ [][(app = "smear" /\ currentStep' = currentStep + 1 /\ Defined(currentStep'))
             => Proc(currentStep').id = Proc(currentStep).nextStep]_vars

\* C23 witness: the delayed advance of video_demonstration landed on the quiz.
C23_Witness ==
    /\ app = "smear"
    /\ Proc(currentStep).id = "mcq_challenge"
    /\ Proc(currentStep - 1).nextStep = "mcq_challenge"
    /\ timers = <<>>

\* The condition under which handleCreateSmear creates the smear.
SmearPreconditions ==
    /\ activeTool = "spreader_slide"
    /\ slideHasBlood
    /\ Proc(currentStep).id = "perform_smear"

\* C24: handleCreateSmear sets smearQuality, adds 30 to score and schedules an
\* advance only if activeTool is spreader_slide, slideHasBlood is true and the
\* active step is perform_smear; otherwise smearQuality, score, activeTool and
\* currentStep are unchanged, no advance is scheduled and incorrect feedback
\* is shown.
C24_SmearPreconditions ==
    [][~CallHandleCreateSmear
       \/ IF SmearPreconditions
          THEN /\ smearQuality' = "good"
               /\ score' = score + 30
               /\ NumAdvance(timers') = NumAdvance(timers) + 1
          ELSE /\ UNCHANGED <<smearQuality, score, activeTool, currentStep>>
               /\ NumAdvance(timers') = NumAdvance(timers)
               /\ feedbackMessage' # ""
               /\ isCorrectAction' = "false"]_vars

\* C24 witness: smear creation was refused at perform_smear with the spreader
\* slide held and no blood on the slide.
C24_Witness ==
    /\ app = "smear"
    /\ Proc(currentStep).id = "perform_smear"
    /\ activeTool = "spreader_slide"
    /\ feedbackMessage = "You need to collect blood on the slide first."
    /\ isCorrectAction = "false"

QuizReward == 50

\* C25: the quiz completion callback adds exactly 50 to score for a correct
\* answer and nothing for a wrong one, leaves currentStep alone and schedules
\* one advance; that advance, when its feedback delay has passed, adds exactly
\* one to currentStep; a submit with no option selected changes neither score
\* nor currentStep and schedules nothing.
C25_QuizOutcome ==
    [][/\ \A i \in 1..MaxPending :
            FireQuiz(i) =>
               /\ score' = score + (IF timers[i].isAnswerCorrect THEN QuizReward ELSE 0)
               /\ currentStep' = currentStep
               /\ NumAdvance(timers') = NumAdvance(timers) + 1
       /\ \A i \in 1..MaxPending :
            (FireAdvance(i) /\ timers[i].delay = QuizDelay) =>
               /\ currentStep' = currentStep + 1
               /\ score' = score
       /\ (handleSubmit /\ selectedOption = NULL) =>
               UNCHANGED <<score, currentStep, timers>>]_vars

\* C25 witness: the quiz was completed with the correct answer at
\* mcq_challenge after a run that earned every other reward.
C25_Witness ==
    /\ app = "smear"
    /\ Proc(currentStep).id = "mcq_challenge"
    /\ feedbackMessage = "Correct! Well done."
    /\ score = 140
    /\ \E i \in 1..Len(timers) : timers[i].kind = "advance" /\ timers[i].delay = QuizDelay

\* C26: at microscope_observation the click on the microscope icon sets
\* showMicroscopeView, leaves currentStep, score and the other flags unchanged
\* and schedules nothing; closing the view clears showMicroscopeView and adds
\* exactly one to currentStep in the same transition, with no timer.
C26_MicroscopeProtocol ==
    [][/\ (ClickWorkspaceButton /\ Proc(currentStep).id = "microscope_observation") =>
            /\ showMicroscopeView'
            /\ UNCHANGED <<currentStep, score, bloodDropVisible, slideHasBlood,
                           smearQuality, timers>>
       /\ CloseMicroscopeView =>
            /\ ~showMicroscopeView'
            /\ currentStep' = currentStep + 1
            /\ timers' = timers]_vars

\* C26 witness: the microscope view is open at microscope_observation.
C26_Witness ==
    /\ app = "smear"
    /\ Proc(currentStep).id = "microscope_observation"
    /\ showMicroscopeView
    /\ smearQuality = "good"

\* The flags of simState (every field but dragging).
SimFlags ==
    {"wearingLabCoat", "wearingGoggles", "balanceCalibrated", "cylinderPicked",
     "cylinderFilled", "cylinderAtBench", "cylinderWeighed", "wasteDisposed"}

\* The dragged cylinder is released within 0.33 of the waste bin.
ReleaseAtBin ==
    /\ onPointerUp
    /\ simState.dragging = "cylinder"
    /\ Within(cylinderPos, WasteBinPos, 33)

\* C27: releasing the cylinder within 0.33 of the waste bin while
\* cylinderFilled is true sets wasteDisposed and clears cylinderFilled,
\* cylinderAtBench and cylinderWeighed in one update, and leaves
\* wearingLabCoat, wearingGoggles, balanceCalibrated and currentStep
\* unchanged; while cylinderFilled is false the release changes no flag.
C27_WasteDisposalEffect ==
    [][ReleaseAtBin =>
          IF simState.cylinderFilled
          THEN /\ simState'.wasteDisposed
               /\ ~simState'.cylinderFilled
               /\ ~simState'.cylinderAtBench
               /\ ~simState'.cylinderWeighed
               /\ simState'.wearingLabCoat = simState.wearingLabCoat
               /\ simState'.wearingGoggles = simState.wearingGoggles
               /\ simState'.balanceCalibrated = simState.balanceCalibrated
               /\ currentStep' = currentStep
          ELSE \A f \in SimFlags : simState'[f] = simState[f]]_vars

\* C27 witness: the weighed cylinder was released at the waste bin.
C27_Witness ==
    /\ app = "safety"
    /\ simState.wasteDisposed
    /\ simState.balanceCalibrated
    /\ ~simState.cylinderFilled
    /\ ~simState.cylinderWeighed
    /\ simState.dragging = NULL
    /\ feedback = "Waste properly disposed!"

-----------------------------------------------------------------------------
(* The canonical runs: either App driven by a user who interacts only      *)
(* while no timer is pending (every timer fires before the next            *)
(* interaction), answers the quiz correctly and stops at the final screen. *)
(* Such a user never causes a rejection, so no feedback-clear timer is     *)
(* ever scheduled.                                                         *)

Quiet == timers = <<>>

NextCanonical ==
    \/ Quiet /\ StartSimulation
    \/ Quiet /\ \E id \in Tools : ClickTool(id)
    \/ Quiet /\ \E id \in Tools : DragTool(id)
    \/ Quiet /\ \E id \in Targets : DropOnTarget(id)
    \/ Quiet /\ ClickCreateSmear
    \/ Quiet /\ ClickWorkspaceButton
    \/ Quiet /\ CloseMicroscopeView
    \/ Quiet /\ VideoNext
    \/ Quiet /\ SelectOption(CorrectAnswer)
    \/ Quiet /\ handleSubmit
    \/ \E i \in 1..MaxPending : FireAdvance(i)
    \/ \E i \in 1..MaxPending : FireQuiz(i)
    \/ \E i \in 1..MaxPending : FireDwell(i)
    \/ Quiet /\ handleWearLabCoat
    \/ Quiet /\ handleWearGoggles
    \/ Quiet /\ \E pickedObj \in {"cylinder", "pipette"} : onPointerDown(pickedObj)
    \/ Quiet /\ \E pos \in Positions : onPointerMove(pos)
    \/ Quiet /\ onPointerUp
    \/ Quiet /\ onBalanceClick
    \/ Quiet /\ CloseModal
    \/ FireSafetyTimer

SpecCanonical == Init /\ [][NextCanonical]_vars

\* C28: the canonical run of the blood-smear simulation visits the step
\* indices 0, 1, ..., 17 in order without skipping, can always continue until
\* final_completion, and is at final_completion with score 140, slideHasBlood
\* true, smearQuality good, bloodDropVisible false and no active tool.
C28_CanonicalRun ==
    /\ [][app = "smear" => currentStep' = currentStep + 1]_currentStep
    /\ [](app = "smear" /\ currentStep # FinalIndex => ENABLED NextCanonical)
    /\ [](app = "smear" => \A i \in 1..Len(timers) : timers[i].kind # "clear")
    /\ [](app = "smear" /\ currentStep = FinalIndex =>
             /\ score = 140
             /\ slideHasBlood
             /\ smearQuality = "good"
             /\ ~bloodDropVisible
             /\ activeTool = NULL)

\* C28 witness: the canonical run has arrived at final_completion.
C28_Witness ==
    /\ app = "smear"
    /\ currentStep = FinalIndex
    /\ Quiet
    /\ feedbackMessage = ""
    /\ smearQuality = "good"

\* C29: in every reachable state of the blood-smear simulation at most one
\* delayed-advance callback is pending.
C29_AtMostOnePendingAdvance ==
    app = "smear" => NumAdvance(timers) <= 1

MaxScore == 10 + 20 + 10 + 20 + 30 + 50

\* C30: each step's reward is added at most once between two resets, so in
\* every reachable state of the blood-smear simulation score is at most 140.
C30_RewardsAwardedOnce ==
    app = "smear" => score <= MaxScore

\* C31: in every reachable state of the blood-smear simulation slideHasBlood
\* and bloodDropVisible are not both true, and once the drop is on the slide
\* no event but the reset makes a blood drop visible again.
C31_BloodInOnePlace ==
    /\ [](app = "smear" => ~(slideHasBlood /\ bloodDropVisible))
    /\ [][(app = "smear" /\ slideHasBlood /\ bloodDropVisible')
             => RestartSimulation]_vars

\* C31 witness: the second drop has just been collected onto the slide.
C31_Witness ==
    /\ app = "smear"
    /\ Proc(currentStep).id = "collect_blood_on_slide"
    /\ feedbackMessage = "Blood collected on the slide!"
    /\ slideHasBlood
    /\ ~bloodDropVisible

\* C32: in every reachable state of the 3D safety simulation cylinderAtBench
\* implies cylinderFilled and cylinderWeighed implies cylinderFilled.
C32_CylinderFlagDependencies ==
    app = "safety" =>
       /\ simState.cylinderAtBench => simState.cylinderFilled
       /\ simState.cylinderWeighed => simState.cylinderFilled

\* C32 witness: the filled cylinder stands on the bench and has been weighed.
C32_Witness ==
    /\ app = "safety"
    /\ simState.cylinderFilled
    /\ simState.cylinderAtBench
    /\ simState.cylinderWeighed
    /\ simState.dragging = NULL

\* C33: in every reachable state of the blood-smear simulation an open
\* microscope view implies that currentStep is the index of
\* microscope_observation.
C33_MicroscopeTiedToStep ==
    (app = "smear" /\ showMicroscopeView)
       => currentStep = IndexOf("microscope_observation")

====
